---- MODULE Spec2Model ----
(***************************************************************************)
(* TorchPPOOptimizer (mlagents/trainers/ppo/optimizer_torch.py): the       *)
(* constructor, the critic property, update and get_modules.               *)
(*                                                                         *)
(* Numbers are fixed point.  Units:                                        *)
(*   learning rate            1e-10   (3e-4 is 3000000, 1e-10 is 1)        *)
(*   epsilon, ratios, values,                                              *)
(*   advantages               1e-3    (0.2 is 200, 0.1 is 100, 1.0 is 1000)*)
(*   beta                     1e-5    (5e-3 is 500, 1e-5 is 1)             *)
(*   entropy                  1e-1                                         *)
(*   momentum                 1e-2                                         *)
(*   losses                   1e-6    (= 1e-3 * 1e-3 = 1e-5 * 1e-1)        *)
(***************************************************************************)
EXTENDS Integers, Sequences, FiniteSets, TLC

VARIABLES
    pc,                  \* "new" | "ready" | "failed": position of the constructor
    raised_at,           \* source line of the raise when pc = "failed", else 0
    hyperparameters,     \* self.hyperparameters (PPOSettings)
    _critic,             \* self._critic
    use_inv_momentum,    \* self.use_inv_momentum
    decay_learning_rate, \* self.decay_learning_rate
    decay_momentum,      \* self.decay_momentum (attribute absent: Unset)
    decay_epsilon,       \* self.decay_epsilon
    decay_beta,          \* self.decay_beta
    optimizer,           \* self.optimizer (torch.optim object)
    warnings,            \* what logger.warning was called with, in order
    current_step,        \* self.policy.get_current_step()
    updates,             \* number of update calls made
    last_step,           \* what get_current_step() returned in the latest update
    batch,               \* the batch of the latest update call
    calls,               \* the optimizer calls the latest update made, in order
    update_stats,        \* what the latest update call returned
    modules              \* what the latest get_modules call returned

vars == <<pc, raised_at, hyperparameters, _critic, use_inv_momentum,
          decay_learning_rate, decay_momentum, decay_epsilon, decay_beta,
          optimizer, warnings, current_step, updates, last_step, batch,
          calls, update_stats, modules>>

---------------------------------------------------------------------------
\* Bounds of the model.

\* trainer_settings.max_steps, the horizon of every schedule; the policy's
\* step counter runs from 0 to one step past it
MaxSteps == 2
\* update is called at most this many times
MaxUpdates == 2
\* samples in a batch
BatchLen == 1

---------------------------------------------------------------------------
\* Python's None for an optional setting or an attribute never assigned.
None == [cls |-> "None"]
Unset == [cls |-> "Unset"]
\* Python's None where a float is expected (every schedule value is >= 0)
NoValue == -1

\* ScheduleType and OptimizerType
ScheduleTypes == {"CONSTANT", "LINEAR", "CYCLIC"}
OptimizerTypes == {"ADAM", "SGD"}

\* minimum values the constructor passes to DecayedValue
LearningRateMin == 1
EpsilonMin == 100
BetaMin == 1

\* InverseMomentumSettings: base_momentum, max_momentum
InverseMomentumSettings ==
    { [base_momentum |-> 0, max_momentum |-> 0],
      [base_momentum |-> 85, max_momentum |-> 95] }

\* CyclicValueSettings.  The constructor reads base_val, max_val, gamma,
\* step_size, adjust_both and inverse_momentum from it; whether
\* inverse_momentum resolves to a settings object there is not decided by
\* this file, so both outcomes are inputs.
CyclicValueSettings ==
    { [base_val |-> 1000000, max_val |-> 5000000, gamma |-> 1, step_size |-> 1,
       adjust_both |-> FALSE, inverse_momentum |-> im] :
         im \in {None} \cup InverseMomentumSettings }

\* PPOSettings whose beta and epsilon schedule types are drawn from `types`
SettingsOver(types) ==
    { [beta |-> 500, epsilon |-> 200, learning_rate |-> 3000000,
       shared_critic |-> sc, optimizer |-> ot,
       learning_rate_schedule |-> ls, beta_schedule |-> bs,
       epsilon_schedule |-> es, cyclic_lr |-> cl, inverse_momentum |-> im] :
         sc \in BOOLEAN, ot \in OptimizerTypes, ls \in ScheduleTypes,
         bs \in types, es \in types,
         cl \in {None} \cup CyclicValueSettings,
         im \in {None, [base_momentum |-> 85, max_momentum |-> 95]} }

\* PPOSettings: every configuration
PPOSettings == SettingsOver(ScheduleTypes)

\* The configurations update is run under.  A CYCLIC beta or epsilon
\* schedule is rewritten to LINEAR by the constructor, so these give every
\* object update can be called on.
UpdateSettings == SettingsOver({"CONSTANT", "LINEAR"})

---------------------------------------------------------------------------
\* The policy's actor, the value network the constructor may create, and
\* their parameter lists.
Actor == [cls |-> "Actor", id |-> "policy.actor"]
ActorParameters == <<"actor.w", "actor.b">>
ValueNetwork == [cls |-> "ValueNetwork", id |-> "value_network"]
ValueNetworkParameters == <<"critic.w", "critic.b">>

Parameters(module) ==
    IF module = Actor THEN ActorParameters ELSE ValueNetworkParameters

---------------------------------------------------------------------------
\* ModelUtils.DecayedValue and ModelUtils.CyclicValue objects.
DecayedValue(schedule, initial_value, min_value, max_step) ==
    [cls |-> "DecayedValue", schedule |-> schedule,
     initial_value |-> initial_value, min_value |-> min_value,
     max_step |-> max_step]

CyclicValue(base_val, max_val, gamma, max_step, step_size, inverse, adjust_both) ==
    [cls |-> "CyclicValue", base_val |-> base_val, max_val |-> max_val,
     gamma |-> gamma, max_step |-> max_step, step_size |-> step_size,
     inverse |-> inverse, adjust_both |-> adjust_both]

Min(a, b) == IF a <= b THEN a ELSE b
Max(a, b) == IF a >= b THEN a ELSE b
Abs(a) == IF a >= 0 THEN a ELSE -a

\* ModelUtils.polynomial_decay with power 1:
\* (initial - min) * (1 - min(step, max_step) / max_step) + min
PolynomialDecay(initial_value, min_value, max_step, global_step) ==
    ((initial_value - min_value) * (max_step - Min(global_step, max_step)))
        \div max_step + min_value

\* The position in the triangular cycle of period 2 * step_size, 0..step_size
CyclePosition(step_size, global_step) ==
    LET x == global_step % (2 * step_size)
    IN IF x <= step_size THEN x ELSE 2 * step_size - x

\* schedule.get_value(global_step)
GetValue(schedule, global_step) ==
    IF schedule.cls = "DecayedValue"
    THEN IF schedule.schedule = "CONSTANT"
         THEN schedule.initial_value
         ELSE PolynomialDecay(schedule.initial_value, schedule.min_value,
                              schedule.max_step, global_step)
    ELSE LET rise == ((schedule.max_val - schedule.base_val)
                        * CyclePosition(schedule.step_size, global_step))
                     \div schedule.step_size
         IN IF schedule.inverse
            THEN schedule.max_val - rise
            ELSE schedule.base_val + rise

---------------------------------------------------------------------------
\* __init__, by the attributes it assigns.

\* self._critic: the actor itself when the critic is shared, else a new
\* ValueNetwork
InitCritic(hp) == IF hp.shared_critic THEN Actor ELSE ValueNetwork

\* Mutant: the critic's parameters are appended even when it is the actor
InitParams_CriticAlways(hp) ==
    Parameters(Actor) \o Parameters(InitCritic(hp))

\* params: the actor's parameters, then those of a separate critic
InitParams(hp) ==
    IF hp.shared_critic
    THEN Parameters(Actor)
    ELSE Parameters(Actor) \o Parameters(InitCritic(hp))

\* Mutant: the optimizer type is not checked
InitUseInvMomentum_AnyOptimizer(hp) ==
    hp.inverse_momentum # None /\ hp.cyclic_lr # None

\* self.use_inv_momentum
InitUseInvMomentum(hp) ==
    IF hp.inverse_momentum # None
    THEN ~(hp.optimizer # "SGD" \/ hp.cyclic_lr = None)
    ELSE FALSE

\* the warning of the inverse momentum check
InvMomentumWarnings(hp) ==
    IF hp.inverse_momentum # None /\ (hp.optimizer # "SGD" \/ hp.cyclic_lr = None)
    THEN <<"inverse momentum needs SGD and cyclic_lr">>
    ELSE <<>>

\* Mutant: cyclic_lr is read whatever the learning rate schedule is
LearningRateRaises_Eager(hp) == hp.cyclic_lr = None

\* Building decay_learning_rate raises: the CYCLIC branch reads attributes
\* of cyclic_lr, which is None
LearningRateRaises(hp) ==
    hp.learning_rate_schedule = "CYCLIC" /\ hp.cyclic_lr = None

\* self.decay_learning_rate
InitDecayLearningRate(hp) ==
    IF hp.learning_rate_schedule # "CYCLIC"
    THEN DecayedValue(hp.learning_rate_schedule, hp.learning_rate,
                      LearningRateMin, MaxSteps)
    ELSE CyclicValue(hp.cyclic_lr.base_val, hp.cyclic_lr.max_val,
                     hp.cyclic_lr.gamma, MaxSteps, hp.cyclic_lr.step_size,
                     FALSE, hp.cyclic_lr.adjust_both)

\* Building decay_momentum raises: cyclic_lr.inverse_momentum does not
\* resolve to a settings object
MomentumRaises(hp) ==
    InitUseInvMomentum(hp) /\ hp.cyclic_lr.inverse_momentum = None

\* self.decay_momentum, assigned only when inverse momentum is in use
InitDecayMomentum(hp) ==
    IF InitUseInvMomentum(hp)
    THEN CyclicValue(hp.cyclic_lr.inverse_momentum.base_momentum,
                     hp.cyclic_lr.inverse_momentum.max_momentum,
                     hp.cyclic_lr.gamma, MaxSteps, hp.cyclic_lr.step_size,
                     TRUE, FALSE)
    ELSE Unset

\* Mutant: a CYCLIC epsilon schedule is kept
InitEpsilonSchedule_Kept(hp) == hp.epsilon_schedule

\* hyperparameters.epsilon_schedule and .beta_schedule as the constructor
\* leaves them
InitEpsilonSchedule(hp) ==
    IF hp.epsilon_schedule = "CYCLIC" THEN "LINEAR" ELSE hp.epsilon_schedule

InitBetaSchedule(hp) ==
    IF hp.beta_schedule = "CYCLIC" THEN "LINEAR" ELSE hp.beta_schedule

ScheduleWarnings(hp) ==
    (IF hp.epsilon_schedule = "CYCLIC"
     THEN <<"cyclic epsilon not supported">> ELSE <<>>)
    \o (IF hp.beta_schedule = "CYCLIC"
        THEN <<"cyclic beta not supported">> ELSE <<>>)

\* self.decay_epsilon and self.decay_beta
InitDecayEpsilon(hp) ==
    DecayedValue(InitEpsilonSchedule(hp), hp.epsilon, EpsilonMin, MaxSteps)

InitDecayBeta(hp) ==
    DecayedValue(InitBetaSchedule(hp), hp.beta, BetaMin, MaxSteps)

\* self.optimizer: OptimizerType.get_cls(optimizer)(params, lr=learning_rate).
\* grads holds the losses back-propagated since the last zero_grad, steps
\* counts step() calls and stepped_with is what grads held at the last one.
InitOptimizer(hp) ==
    [cls |-> hp.optimizer, params |-> InitParams(hp), lr |-> hp.learning_rate,
     momentum |-> IF hp.optimizer = "SGD" THEN 0 ELSE NoValue,
     grads |-> <<>>, steps |-> 0, stepped_with |-> <<>>]

EmptyStats == [k \in {} |-> 0]

InitOver(settings) ==
    /\ pc = "new"
    /\ raised_at = 0
    /\ hyperparameters \in settings
    /\ _critic = Unset
    /\ use_inv_momentum = FALSE
    /\ decay_learning_rate = Unset
    /\ decay_momentum = Unset
    /\ decay_epsilon = Unset
    /\ decay_beta = Unset
    /\ optimizer = Unset
    /\ warnings = <<>>
    /\ current_step = 0
    /\ updates = 0
    /\ last_step = 0
    /\ batch = <<>>
    /\ calls = <<>>
    /\ update_stats = EmptyStats
    /\ modules = EmptyStats

Init == InitOver(UpdateSettings)

InitAll == InitOver(PPOSettings)

\* TorchPPOOptimizer.__init__(policy, trainer_settings)
Construct ==
    /\ pc = "new"
    /\ LET hp == hyperparameters IN
        /\ _critic' = InitCritic(hp)
        /\ use_inv_momentum' = InitUseInvMomentum(hp)
        /\ IF LearningRateRaises(hp)
           THEN /\ pc' = "failed"
                /\ raised_at' = 91
                /\ warnings' = InvMomentumWarnings(hp)
                /\ UNCHANGED <<hyperparameters, decay_learning_rate,
                               decay_momentum, decay_epsilon, decay_beta,
                               optimizer>>
           ELSE IF MomentumRaises(hp)
           THEN /\ pc' = "failed"
                /\ raised_at' = 102
                /\ warnings' = InvMomentumWarnings(hp)
                /\ decay_learning_rate' = InitDecayLearningRate(hp)
                /\ UNCHANGED <<hyperparameters, decay_momentum, decay_epsilon,
                               decay_beta, optimizer>>
           ELSE /\ pc' = "ready"
                /\ raised_at' = 0
                /\ warnings' = InvMomentumWarnings(hp) \o ScheduleWarnings(hp)
                /\ decay_learning_rate' = InitDecayLearningRate(hp)
                /\ decay_momentum' = InitDecayMomentum(hp)
                /\ hyperparameters' =
                     [hp EXCEPT !.epsilon_schedule = InitEpsilonSchedule(hp),
                                !.beta_schedule = InitBetaSchedule(hp)]
                /\ decay_epsilon' = InitDecayEpsilon(hp)
                /\ decay_beta' = InitDecayBeta(hp)
                /\ optimizer' = InitOptimizer(hp)
    /\ UNCHANGED <<current_step, updates, last_step, batch, calls,
                   update_stats, modules>>

---------------------------------------------------------------------------
\* The batch handed to update, with what the networks return for it.

\* self.reward_signals.keys(): one value head per reward signal
StreamNames == {"extrinsic", "curiosity"}

\* One experience: the buffer's advantages, old log-probabilities, old value
\* estimates, returns and loss mask, and the actor's log-probability and
\* entropy and the critic's value estimates for it.  Log-probabilities are
\* in the unit whose exponentials Exp tabulates.
Sample(advantage, mask) ==
    [advantages |-> advantage,
     log_probs |-> IF advantage > 0 THEN 1 ELSE -1,
     old_log_probs |-> 0,
     entropy |-> IF advantage > 0 THEN 12 ELSE 7,
     values |-> [n \in StreamNames |->
                   IF n = "extrinsic" THEN 1500 ELSE 900],
     old_values |-> [n \in StreamNames |-> 1000],
     returns |-> [n \in StreamNames |->
                    IF n = "extrinsic" THEN 2000 ELSE 500],
     masks |-> mask]

Samples == {Sample(1000, TRUE), Sample(-1000, TRUE), Sample(1000, FALSE)}

Batches == [1..BatchLen -> Samples]

\* torch.exp on the differences of log-probabilities that occur
Exp(d) == CASE d = -1 -> 700 [] d = 0 -> 1000 [] d = 1 -> 1400

\* torch.clamp
Clamp(x, lo, hi) == Max(lo, Min(x, hi))

RECURSIVE SumSeq(_)
SumSeq(q) == IF q = <<>> THEN 0 ELSE Head(q) + SumSeq(Tail(q))

\* ModelUtils.masked_mean: (tensor * masks).sum() / clamp(masks.sum(), min=1)
MaskedMean(tensor, masks) ==
    SumSeq([i \in 1..Len(tensor) |-> IF masks[i] THEN tensor[i] ELSE 0])
        \div Max(SumSeq([i \in 1..Len(masks) |-> IF masks[i] THEN 1 ELSE 0]), 1)

LossMasks(b) == [i \in 1..Len(b) |-> b[i].masks]

\* ModelUtils.trust_region_value_loss for one value head
HeadValueLoss(b, name, epsilon) ==
    MaskedMean(
        [i \in 1..Len(b) |->
            LET head == b[i].values[name]
                old == b[i].old_values[name]
                ret == b[i].returns[name]
                clipped == old + Clamp(head - old, -epsilon, epsilon)
            IN Max((ret - head) * (ret - head), (ret - clipped) * (ret - clipped))],
        LossMasks(b))

RECURSIVE SumOver(_, _, _)
SumOver(names, b, epsilon) ==
    IF names = {} THEN 0
    ELSE LET n == CHOOSE x \in names : TRUE
         IN HeadValueLoss(b, n, epsilon) + SumOver(names \ {n}, b, epsilon)

\* ModelUtils.trust_region_value_loss: the mean over the value heads
TrustRegionValueLoss(b, epsilon) ==
    SumOver(StreamNames, b, epsilon) \div Cardinality(StreamNames)

\* ModelUtils.trust_region_policy_loss
TrustRegionPolicyLoss(b, epsilon) ==
    -1 * MaskedMean(
        [i \in 1..Len(b) |->
            LET r_theta == Exp(b[i].log_probs - b[i].old_log_probs)
                p_opt_a == r_theta * b[i].advantages
                p_opt_b == Clamp(r_theta, 1000 - epsilon, 1000 + epsilon)
                             * b[i].advantages
            IN Min(p_opt_a, p_opt_b)],
        LossMasks(b))

\* ModelUtils.masked_mean(entropy, loss_masks)
MeanEntropy(b) ==
    MaskedMean([i \in 1..Len(b) |-> b[i].entropy], LossMasks(b))

---------------------------------------------------------------------------
\* update, by the values it computes and the calls it makes.

\* decay_momentum: the momentum schedule's value when inverse momentum is
\* in use, else None
DecayMomentumValue(use_inv, schedule, step) ==
    IF use_inv THEN GetValue(schedule, step) ELSE NoValue

\* `if decay_momentum:` is false for None and for 0.0
Truthy(value) == value # NoValue /\ value # 0

\* Mutant: the entropy term is added, a penalty
Loss_EntropyAdded(policy_loss, value_loss, decay_bet, mean_entropy) ==
    policy_loss + value_loss \div 2 + decay_bet * mean_entropy

\* loss = policy_loss + 0.5 * value_loss - decay_bet * masked_mean(entropy)
Loss(policy_loss, value_loss, decay_bet, mean_entropy) ==
    policy_loss + value_loss \div 2 - decay_bet * mean_entropy

\* Mutant: the gradients are not zeroed
OptimizerCalls_NoZeroGrad(decay_lr, decay_mom, loss) ==
    <<[op |-> "update_learning_rate", arg |-> decay_lr]>>
    \o (IF decay_mom # NoValue /\ decay_mom # 0
        THEN <<[op |-> "update_momentum", arg |-> decay_mom]>>
        ELSE <<>>)
    \o <<[op |-> "backward", arg |-> loss],
         [op |-> "step", arg |-> 0]>>

\* The calls update makes on self.optimizer, in order
OptimizerCalls(decay_lr, decay_mom, loss) ==
    <<[op |-> "update_learning_rate", arg |-> decay_lr]>>
    \o (IF Truthy(decay_mom)
        THEN <<[op |-> "update_momentum", arg |-> decay_mom]>>
        ELSE <<>>)
    \o <<[op |-> "zero_grad", arg |-> 0],
         [op |-> "backward", arg |-> loss],
         [op |-> "step", arg |-> 0]>>

\* What one call does to the torch optimizer
ApplyCall(opt, c) ==
    CASE c.op = "update_learning_rate" -> [opt EXCEPT !.lr = c.arg]
      [] c.op = "update_momentum" -> [opt EXCEPT !.momentum = c.arg]
      [] c.op = "zero_grad" -> [opt EXCEPT !.grads = <<>>]
      [] c.op = "backward" -> [opt EXCEPT !.grads = Append(@, c.arg)]
      [] c.op = "step" -> [opt EXCEPT !.steps = @ + 1,
                                      !.stepped_with = opt.grads]

RECURSIVE ApplyCalls(_, _)
ApplyCalls(opt, cs) ==
    IF cs = <<>> THEN opt ELSE ApplyCalls(ApplyCall(opt, Head(cs)), Tail(cs))

\* The dictionary update returns
UpdateStats(policy_loss, value_loss, decay_lr, decay_eps, decay_bet, decay_mom) ==
    LET keys == {"Losses/Policy Loss", "Losses/Value Loss",
                 "Policy/Learning Rate", "Policy/Epsilon", "Policy/Beta"}
                \cup (IF Truthy(decay_mom) THEN {"Policy/Momentum"} ELSE {})
    IN [k \in keys |->
          CASE k = "Losses/Policy Loss" -> Abs(policy_loss)
            [] k = "Losses/Value Loss" -> value_loss
            [] k = "Policy/Learning Rate" -> decay_lr
            [] k = "Policy/Epsilon" -> decay_eps
            [] k = "Policy/Beta" -> decay_bet
            [] k = "Policy/Momentum" -> decay_mom]

\* decay_lr, decay_eps and decay_bet: the schedules read at the policy's step
DecayLr(step) == GetValue(decay_learning_rate, step)

DecayEps(step) == GetValue(decay_epsilon, step)

\* Mutant: beta is read at step 0 and never decays
DecayBet_AtStepZero(step) == GetValue(decay_beta, 0)

DecayBet(step) == GetValue(decay_beta, step)

\* TorchPPOOptimizer.update(batch, num_sequences)
Update(b) ==
    /\ pc = "ready"
    /\ updates < MaxUpdates
    /\ LET step == current_step
           decay_lr == DecayLr(step)
           decay_mom == DecayMomentumValue(use_inv_momentum, decay_momentum, step)
           decay_eps == DecayEps(step)
           decay_bet == DecayBet(step)
           value_loss == TrustRegionValueLoss(b, decay_eps)
           policy_loss == TrustRegionPolicyLoss(b, decay_eps)
           loss == Loss(policy_loss, value_loss, decay_bet, MeanEntropy(b))
           cs == OptimizerCalls(decay_lr, decay_mom, loss)
       IN /\ calls' = cs
          /\ optimizer' = ApplyCalls(optimizer, cs)
          /\ update_stats' = UpdateStats(policy_loss, value_loss, decay_lr,
                                         decay_eps, decay_bet, decay_mom)
          /\ last_step' = step
    /\ batch' = b
    /\ updates' = updates + 1
    /\ UNCHANGED <<pc, raised_at, hyperparameters, _critic, use_inv_momentum,
                   decay_learning_rate, decay_momentum, decay_epsilon,
                   decay_beta, warnings, current_step, modules>>

\* reward_provider.get_modules() of the reward signal `name`
RewardProviderModules(name) ==
    IF name = "extrinsic"
    THEN EmptyStats
    ELSE [k \in {"Module:curiosity"} |-> [cls |-> "Module", id |-> name]]

\* dict.update
DictUpdate(d, e) ==
    [k \in DOMAIN d \cup DOMAIN e |-> IF k \in DOMAIN e THEN e[k] ELSE d[k]]

RECURSIVE AllProviderModules(_, _)
AllProviderModules(d, names) ==
    IF names = {} THEN d
    ELSE LET n == CHOOSE x \in names : TRUE
         IN AllProviderModules(DictUpdate(d, RewardProviderModules(n)),
                               names \ {n})

\* The critic property
Critic == _critic

\* The dictionary's reference to self.optimizer
OptimizerRef == [cls |-> "Optimizer", id |-> "self.optimizer"]

\* TorchPPOOptimizer.get_modules()
GetModulesResult ==
    AllProviderModules(
        [k \in {"Optimizer:value_optimizer", "Optimizer:critic"} |->
            IF k = "Optimizer:critic" THEN _critic ELSE OptimizerRef],
        StreamNames)

GetModules ==
    /\ pc = "ready"
    /\ modules' = GetModulesResult
    /\ UNCHANGED <<pc, raised_at, hyperparameters, _critic, use_inv_momentum,
                   decay_learning_rate, decay_momentum, decay_epsilon,
                   decay_beta, optimizer, warnings, current_step, updates,
                   last_step, batch, calls, update_stats>>

\* The trainer advances the policy's step counter between updates
IncrementStep ==
    /\ pc = "ready"
    /\ current_step <= MaxSteps
    /\ current_step' = current_step + 1
    /\ UNCHANGED <<pc, raised_at, hyperparameters, _critic, use_inv_momentum,
                   decay_learning_rate, decay_momentum, decay_epsilon,
                   decay_beta, optimizer, warnings, updates, last_step, batch,
                   calls, update_stats, modules>>

\* Training: construction, then updates as the policy's step advances
Next ==
    \/ Construct
    \/ \E b \in Batches : Update(b)
    \/ IncrementStep

Spec == Init /\ [][Next]_vars

\* Construction under every configuration, and what get_modules then returns
NextInit ==
    \/ Construct
    \/ GetModules

SpecInit == InitAll /\ [][NextInit]_vars

---------------------------------------------------------------------------
\* Properties.

Ops(cs) == [i \in 1..Len(cs) |-> cs[i].op]

Range(q) == {q[i] : i \in 1..Len(q)}

\* The argument of the backward call among cs
Backpropagated(cs) ==
    (CHOOSE c \in Range(cs) : c.op = "backward").arg

\* C1: every update call sets the learning rate (and the momentum, when it
\* sets one), zeroes the gradients, back-propagates the loss and steps once,
\* in this order; after n update calls the optimizer has taken n steps, and
\* each step used the gradients of that update's loss alone.
C1_OneStepPerUpdate ==
    pc = "ready" =>
        /\ optimizer.steps = updates
        /\ updates > 0 =>
             /\ Ops(calls) \in
                  { <<"update_learning_rate", "zero_grad", "backward", "step">>,
                    <<"update_learning_rate", "update_momentum", "zero_grad",
                      "backward", "step">> }
             /\ optimizer.stepped_with = <<Backpropagated(calls)>>

C1_Witness ==
    /\ updates = 2
    /\ optimizer.steps = 2
    /\ Len(calls) = 5

\* C2: the loss update back-propagates is policy_loss + 0.5 * value_loss
\* - beta * masked_mean(entropy), the two losses computed for the batch
\* with the epsilon schedule's value, and beta the beta schedule's value, at
\* the policy's step.
C2_LossFormula ==
    updates > 0 =>
        LET eps == GetValue(decay_epsilon, last_step)
            beta == GetValue(decay_beta, last_step)
        IN Backpropagated(calls) =
             TrustRegionPolicyLoss(batch, eps)
               + TrustRegionValueLoss(batch, eps) \div 2
               - beta * MeanEntropy(batch)

C2_Witness ==
    /\ updates > 0
    /\ batch[1].masks
    /\ last_step = 1
    /\ MeanEntropy(batch) > 0
    /\ Backpropagated(calls) # 0

\* C3: the learning rate written to the optimizer, the epsilon of both
\* losses and the beta of the loss are the schedules' values at the policy's
\* step, and the statistics returned report exactly these values.
C3_SchedulesAtCurrentStep ==
    updates > 0 =>
        LET lr == GetValue(decay_learning_rate, last_step)
            eps == GetValue(decay_epsilon, last_step)
            beta == GetValue(decay_beta, last_step)
        IN /\ calls[1] = [op |-> "update_learning_rate", arg |-> lr]
           /\ optimizer.lr = lr
           /\ update_stats["Policy/Learning Rate"] = lr
           /\ update_stats["Policy/Epsilon"] = eps
           /\ update_stats["Policy/Beta"] = beta
           /\ update_stats["Losses/Value Loss"] = TrustRegionValueLoss(batch, eps)
           /\ update_stats["Losses/Policy Loss"] =
                Abs(TrustRegionPolicyLoss(batch, eps))
           /\ Backpropagated(calls) + beta * MeanEntropy(batch) =
                TrustRegionPolicyLoss(batch, eps)
                  + TrustRegionValueLoss(batch, eps) \div 2

C3_Witness ==
    /\ updates > 0
    /\ last_step = 1
    /\ hyperparameters.learning_rate_schedule = "LINEAR"
    /\ hyperparameters.epsilon_schedule = "LINEAR"
    /\ hyperparameters.beta_schedule = "LINEAR"
    /\ update_stats["Policy/Learning Rate"] < hyperparameters.learning_rate
    /\ update_stats["Policy/Epsilon"] < hyperparameters.epsilon
    /\ update_stats["Policy/Beta"] < hyperparameters.beta

\* C4: after construction neither the epsilon nor the beta schedule is
\* cyclic; a schedule type configured CYCLIC is overwritten with LINEAR in
\* the settings and a linear decayed schedule built (epsilon down to 0.1,
\* beta down to 1e-5, over max_steps); any other type is left as configured.
C4_NoCyclicEpsilonBeta ==
    [][ (pc = "new" /\ pc' = "ready") =>
          LET hp == hyperparameters
              es == IF hp.epsilon_schedule = "CYCLIC"
                    THEN "LINEAR" ELSE hp.epsilon_schedule
              bs == IF hp.beta_schedule = "CYCLIC"
                    THEN "LINEAR" ELSE hp.beta_schedule
          IN /\ hyperparameters'.epsilon_schedule = es
             /\ hyperparameters'.beta_schedule = bs
             /\ decay_epsilon' =
                  [cls |-> "DecayedValue", schedule |-> es,
                   initial_value |-> hp.epsilon, min_value |-> 100,
                   max_step |-> MaxSteps]
             /\ decay_beta' =
                  [cls |-> "DecayedValue", schedule |-> bs,
                   initial_value |-> hp.beta, min_value |-> 1,
                   max_step |-> MaxSteps]
             /\ es # "CYCLIC" /\ bs # "CYCLIC" ]_vars

C4_Witness ==
    /\ pc = "ready"
    /\ "cyclic epsilon not supported" \in Range(warnings)
    /\ "cyclic beta not supported" \in Range(warnings)
    /\ hyperparameters.epsilon_schedule = "LINEAR"
    /\ decay_beta.schedule = "LINEAR"

\* C5: in every constructed optimizer in which inverse momentum is in use,
\* the optimizer type is SGD and the learning rate schedule in effect is
\* the cyclic one.
C5_InvMomentumOnlyWithCyclicLr ==
    (pc = "ready" /\ use_inv_momentum /\ decay_momentum # Unset) =>
        /\ hyperparameters.optimizer = "SGD"
        /\ decay_learning_rate.cls = "CyclicValue"

\* C6: after construction use_inv_momentum is true exactly when
\* inverse_momentum is set, the optimizer type is SGD and cyclic_lr is set;
\* otherwise no momentum schedule exists and, when inverse_momentum was
\* requested, the constructor has warned and this check has raised nothing.
C6_UseInvMomentum ==
    LET hp == hyperparameters
        usable == /\ hp.inverse_momentum # None
                  /\ hp.optimizer = "SGD"
                  /\ hp.cyclic_lr # None
    IN pc # "new" =>
         /\ use_inv_momentum = usable
         /\ ~usable =>
              /\ decay_momentum = Unset
              /\ hp.inverse_momentum # None =>
                   "inverse momentum needs SGD and cyclic_lr" \in Range(warnings)
              /\ pc = "failed" =>
                   (raised_at = 91 /\ hp.learning_rate_schedule = "CYCLIC"
                      /\ hp.cyclic_lr = None)

C6_Witness ==
    /\ pc = "ready"
    /\ hyperparameters.inverse_momentum # None
    /\ hyperparameters.optimizer = "ADAM"
    /\ hyperparameters.cyclic_lr # None
    /\ ~use_inv_momentum
    /\ warnings # <<>>

\* C7: with inverse momentum in use every update sets the optimizer's
\* momentum to the momentum schedule's value at the policy's step, before
\* the step, and returns it as "Policy/Momentum"; without it no update
\* changes the momentum or returns "Policy/Momentum".
C7_MomentumSetAndReported ==
    updates > 0 =>
        IF use_inv_momentum
        THEN LET m == GetValue(decay_momentum, last_step)
             IN /\ calls[2] = [op |-> "update_momentum", arg |-> m]
                /\ optimizer.momentum = m
                /\ "Policy/Momentum" \in DOMAIN update_stats
                /\ update_stats["Policy/Momentum"] = m
        ELSE /\ "update_momentum" \notin Range(Ops(calls))
             /\ optimizer.momentum =
                  (IF hyperparameters.optimizer = "SGD" THEN 0 ELSE NoValue)
             /\ "Policy/Momentum" \notin DOMAIN update_stats

\* C8: with a shared critic the critic is the actor and the optimizer's
\* parameters are the actor's, none twice; otherwise the critic is a new
\* value network and the parameters are the actor's followed by the
\* critic's.  The critic property and get_modules' "Optimizer:critic" are
\* that critic.
C8_ParametersByShared ==
    pc = "ready" =>
        /\ IF hyperparameters.shared_critic
           THEN /\ Critic = Actor
                /\ optimizer.params = ActorParameters
                /\ Cardinality(Range(optimizer.params)) = Len(optimizer.params)
           ELSE /\ Critic = ValueNetwork
                /\ Critic # Actor
                /\ optimizer.params = ActorParameters \o ValueNetworkParameters
        /\ modules # EmptyStats => modules["Optimizer:critic"] = Critic

C8_Witness ==
    /\ pc = "ready"
    /\ hyperparameters.shared_critic
    /\ modules # EmptyStats
    /\ modules["Optimizer:critic"] = Actor

\* C9: with learning_rate_schedule CYCLIC and no cyclic_lr the constructor
\* raises before the epsilon schedule, the beta schedule and the optimizer
\* exist; with any other learning_rate_schedule a missing cyclic_lr is no
\* error and a decayed learning rate schedule is built.
C9_CyclicWithoutSettingsRaises ==
    LET hp == hyperparameters
    IN (pc # "new" /\ hp.cyclic_lr = None) =>
         IF hp.learning_rate_schedule = "CYCLIC"
         THEN /\ pc = "failed"
              /\ raised_at = 91
              /\ decay_learning_rate = Unset
              /\ decay_epsilon = Unset
              /\ decay_beta = Unset
              /\ optimizer = Unset
         ELSE /\ pc = "ready"
              /\ decay_learning_rate.cls = "DecayedValue"
              /\ optimizer # Unset

C9_Witness ==
    /\ pc = "failed"
    /\ raised_at = 91
    /\ hyperparameters.learning_rate_schedule = "CYCLIC"
    /\ hyperparameters.cyclic_lr = None
    /\ optimizer = Unset

====
